---- MODULE Spec2Model ----
(***************************************************************************)
(* The varfmt analysis pass of mutility/variable-format                    *)
(* (src/varfmt/varfmt.go, the inspector-based version, lines 143-449).     *)
(*                                                                         *)
(* The pass walks a type-checked package in preorder and is called back on *)
(* every function declaration, assignment statement and call expression.   *)
(* The model keeps the pass's own state (the passthru map, the diagnostics *)
(* reported by the visit just made, the culprit map of that visit), the    *)
(* position of the traversal, and the SuppressNoArgs option.  The syntax   *)
(* tree, the objects identifiers resolve to and the printf classification  *)
(* are inputs: every visit draws its node from a bounded set of nodes a    *)
(* type-checked Go package can contain at that position.                   *)
(*                                                                         *)
(* Text: TLA+ strings cannot hold a backquote, so the backquote of the     *)
(* messages is written ' (one byte either way).  Len of a string is its    *)
(* length as Go's len gives it for ASCII source text.                      *)
(***************************************************************************)
EXTENDS Integers, Sequences, FiniteSets, TLC

VARIABLES
    SuppressNoArgs, \* the option, fixed when the analyzer is constructed
    passthru,       \* run: the map of pass-through format parameters (its key set)
    cur,            \* traversal position: the index in Decls of the function
                    \* declaration being walked, 0 before the first
    assigned,       \* history: the parameters of that function seen so far as
                    \* bare-identifier targets of an assignment
    fmtexpr,        \* the format argument the parser is building (SpecE)
    node,           \* the node the callback was last called with
    culprits,       \* the bad map of the last visit (paths inside the format argument)
    verdict,        \* what constlit returned in the last visit: "constant" or
                    \* "nonconstant", or "none" when it was not called
    emitted,        \* the diagnostics the last visit reported
    aborted,        \* the callback panicked: the pass is over
    passthru2,      \* a second run of the pass over the same tree: its map
    emitted2,       \* ... the diagnostics of its visit of the same node
    aborted2        \* ... whether it panicked

vars == <<SuppressNoArgs, passthru, cur, assigned, fmtexpr, node, culprits, verdict, emitted,
          aborted, passthru2, emitted2, aborted2>>

(***************************************************************************)
(* Bounds of the model.                                                    *)
(***************************************************************************)
\* Largest number of syntax nodes in a format-argument expression (callee
\* expressions of calls inside it not counted).
MaxSize == 4
\* Largest number of syntactic arguments of a visited call.
MaxArgs == 2

(***************************************************************************)
(* Syntax nodes (go/ast).  kind is the node's dynamic type; name is the    *)
(* source text of a leaf (an operator token for unary and binary nodes);   *)
(* obj is the kind of types.Object that TypesInfo.ObjectOf gives for an    *)
(* identifier, or for the Sel of a selector: "Const", "Var", "TypeName",   *)
(* "Func", or "nil" when there is none; xs are the children.  A CallExpr   *)
(* has xs = <<Fun, Args...>>; a SliceExpr has xs = <<X, Low, High, Max>>   *)
(* with NilExpr for an absent bound.  A node inside an expression is       *)
(* identified by its path, the sequence of child indexes from the root:    *)
(* the code's maps are keyed by node pointers, and two nodes with the same *)
(* text are still two nodes.                                               *)
(***************************************************************************)
Leaf(kind, name, obj) == [kind |-> kind, name |-> name, obj |-> obj, xs |-> <<>>]

Node(kind, name, xs) == [kind |-> kind, name |-> name, obj |-> "", xs |-> xs]

NilExpr == Leaf("nil", "", "")

Ident(name, obj) == Leaf("Ident", name, obj)

Selector(name, obj) == Leaf("SelectorExpr", name, obj)

Call(fun, args) == Node("CallExpr", "", <<fun>> \o args)

Fun(x) == x.xs[1]

Args(x) == Tail(x.xs)

\* A types.Object: its name (names are unique in the modelled package, so the
\* name is the object's identity and its declaration's position) and its kind.
\* NilObj is the nil Object.
NilObj == [name |-> "", kind |-> "nil"]

\* TypesInfo.ObjectOf of an identifier (or of a selector's Sel).
ObjectOf(id) == IF id.obj = "nil" THEN NilObj ELSE [name |-> id.name, kind |-> id.obj]

(***************************************************************************)
(* pp: printer.Fprint of a node (lines 196-200), as gofmt lays out the     *)
(* node kinds the model builds.                                            *)
(***************************************************************************)
RECURSIVE pp(_)
RECURSIVE ppList(_)
ppList(xs) ==
    IF xs = <<>> THEN ""
    ELSE IF Len(xs) = 1 THEN pp(xs[1])
    ELSE pp(xs[1]) \o ", " \o ppList(Tail(xs))

ppOpt(x) == IF x.kind = "nil" THEN "" ELSE pp(x)

pp(x) ==
    CASE x.kind = "BinaryExpr" -> pp(x.xs[1]) \o " " \o x.name \o " " \o pp(x.xs[2])
      [] x.kind = "KeyValueExpr" -> pp(x.xs[1]) \o ": " \o pp(x.xs[2])
      [] x.kind = "ParenExpr" -> "(" \o pp(x.xs[1]) \o ")"
      [] x.kind = "SliceExpr" ->
            pp(x.xs[1]) \o "[" \o ppOpt(x.xs[2]) \o ":" \o ppOpt(x.xs[3])
            \o (IF x.xs[4].kind = "nil" THEN "" ELSE ":" \o pp(x.xs[4])) \o "]"
      [] x.kind = "StarExpr" -> "*" \o pp(x.xs[1])
      [] x.kind = "TypeAssertExpr" -> pp(x.xs[1]) \o ".(string)"
      [] x.kind = "UnaryExpr" -> x.name \o pp(x.xs[1])
      [] x.kind = "CallExpr" -> pp(Fun(x)) \o "(" \o ppList(Args(x)) \o ")"
      [] x.kind = "IndexExpr" -> pp(x.xs[1]) \o "[" \o pp(x.xs[2]) \o "]"
      [] OTHER -> x.name

(***************************************************************************)
(* The small predicates on objects and callee expressions.                 *)
(***************************************************************************)
\* pt (lines 403-405) prints label and reflect.TypeOf(x).String().  TypeOf
\* of a nil interface is nil, and String on it is a nil dereference: pt
\* panics exactly when x is nil.  The value is whether it panics.
pt(x) == x = NilObj

constobj(obj) == obj.kind = "Const"

typeobj(obj) == obj.kind = "TypeName"

\* selobj (lines 443-449): ObjectOf(x.Sel).  In a type-checked package every
\* selector's Sel is recorded in Uses, so the Selections fallback is not taken.
selobj(x) == ObjectOf(x)

\* A typeexpr that forgets to replace a selector by its Sel.
typeexpr_sel(x) == x.kind = "Ident" /\ typeobj(ObjectOf(x))

\* typeexpr (lines 419-428): a selector is replaced by its Sel; an identifier
\* is a type expression when it is bound to a type name; anything else is
\* logged (pt of a non-nil node returns) and is not.
typeexpr(x) ==
    IF x.kind \in {"SelectorExpr", "Ident"} THEN typeobj(ObjectOf(x)) ELSE FALSE

(***************************************************************************)
(* constlit and combine (lines 331-401).  bad is the culprit map, a set of *)
(* paths; p is the path of x.  The value is [ok, bad]: the verdict and the *)
(* map as the call leaves it.                                              *)
(***************************************************************************)
RECURSIVE constlit(_, _, _)
RECURSIVE operands(_, _, _, _)
RECURSIVE combine(_, _, _, _)

\* bad[x] = struct{}{}; return false (lines 380-381)
nonconst(p, bad) == [ok |-> FALSE, bad |-> bad \cup {p}]

\* The loop of combine (lines 385-393) over the operands at child indexes
\* idxs, from acc = [allgood, allbad, bad].
operands(x, p, acc, idxs) ==
    IF idxs = <<>> THEN acc
    ELSE LET r == constlit(x.xs[Head(idxs)], p \o <<Head(idxs)>>, acc.bad)
         IN  operands(x, p,
                      [allgood |-> acc.allgood /\ r.ok,
                       allbad |-> acc.allbad /\ ~r.ok,
                       bad |-> r.bad],
                      Tail(idxs))

\* A combine that deletes the operands without recording the parent.
combine_drop(x, p, bad, idxs) ==
    LET r == operands(x, p, [allgood |-> TRUE, allbad |-> TRUE, bad |-> bad], idxs)
    IN  [ok |-> r.allgood,
         bad |-> IF r.allbad THEN r.bad \ {p \o <<idxs[i]>> : i \in DOMAIN idxs} ELSE r.bad]

\* A combine that records the parent without deleting the operands.
combine_keep(x, p, bad, idxs) ==
    LET r == operands(x, p, [allgood |-> TRUE, allbad |-> TRUE, bad |-> bad], idxs)
    IN  [ok |-> r.allgood, bad |-> IF r.allbad THEN r.bad \cup {p} ELSE r.bad]

\* combine (lines 384-401): parent x at path p, operands x.xs[i] for i in idxs.
combine(x, p, bad, idxs) ==
    LET r == operands(x, p, [allgood |-> TRUE, allbad |-> TRUE, bad |-> bad], idxs)
    IN  IF r.allbad
        THEN [ok |-> r.allgood,
              bad |-> (r.bad \ {p \o <<idxs[i]>> : i \in DOMAIN idxs}) \cup {p}]
        ELSE [ok |-> r.allgood, bad |-> r.bad]

\* The operands of a slice expression (lines 340-349): X, then each bound
\* that is present.
sliceOperands(x) ==
    <<1>> \o (IF x.xs[2].kind = "nil" THEN <<>> ELSE <<2>>)
          \o (IF x.xs[3].kind = "nil" THEN <<>> ELSE <<3>>)
          \o (IF x.xs[4].kind = "nil" THEN <<>> ELSE <<4>>)

\* A call case that does not ask whether the callee is a type.
callExpr_anyfun(x, p, bad) ==
    IF Len(Args(x)) = 1
    THEN LET r == constlit(Args(x)[1], p \o <<2>>, bad)
         IN  IF r.ok THEN r ELSE nonconst(p, r.bad)
    ELSE nonconst(p, bad)

\* case *ast.CallExpr (lines 369-372, then 380-381): && evaluates constlit
\* on the argument only after the two tests before it.
callExpr(x, p, bad) ==
    IF Len(Args(x)) = 1 /\ typeexpr(Fun(x))
    THEN LET r == constlit(Args(x)[1], p \o <<2>>, bad)
         IN  IF r.ok THEN r ELSE nonconst(p, r.bad)
    ELSE nonconst(p, bad)

\* An index case that combines its operands like a binary expression.
indexExpr_combine(x, p, bad) == combine(x, p, bad, <<1, 2>>)

\* case *ast.IndexExpr (line 374, then 380-381)
indexExpr(x, p, bad) == nonconst(p, bad)

constlit(x, p, bad) ==
    CASE x.kind \in {"BinaryExpr", "KeyValueExpr"} -> combine(x, p, bad, <<1, 2>>)
      [] x.kind \in {"ParenExpr", "StarExpr", "TypeAssertExpr", "UnaryExpr"} ->
            combine(x, p, bad, <<1>>)
      [] x.kind = "SliceExpr" -> combine(x, p, bad, sliceOperands(x))
      [] x.kind = "SelectorExpr" ->
            IF constobj(selobj(x)) THEN [ok |-> TRUE, bad |-> bad] ELSE nonconst(p, bad)
      [] x.kind = "BasicLit" -> [ok |-> TRUE, bad |-> bad]
      [] x.kind = "Ident" ->
            IF constobj(ObjectOf(x)) THEN [ok |-> TRUE, bad |-> bad] ELSE nonconst(p, bad)
      [] x.kind = "CallExpr" -> callExpr(x, p, bad)
      [] x.kind = "IndexExpr" -> indexExpr(x, p, bad)
      [] OTHER -> nonconst(p, bad)   \* pt of a non-nil node, then bad[x]

(***************************************************************************)
(* The package under analysis: what the printf analyzer and the type       *)
(* checker say about the functions the model's nodes name.                 *)
(***************************************************************************)
\* printers.Kind(fun): fmt's own functions, the package's wrappers wrapf and
\* logf as the printf analyzer infers them, and tracef as named by -funcs.
Kind(name) ==
    CASE name \in {"fmt.Sprintf", "fmt.Fprintf", "wrapf", "logf", "tracef"} -> "KindPrintf"
      [] name = "fmt.Errorf" -> "KindErrorf"
      [] name = "fmt.Sprint" -> "KindPrint"
      [] OTHER -> "KindNone"

\* fun.Type().(*types.Signature).Params().Len()
ParamsLen(name) ==
    CASE name \in {"fmt.Sprintf", "fmt.Errorf", "wrapf", "tracef"} -> 2
      [] name \in {"fmt.Fprintf", "logf"} -> 3
      [] OTHER -> 1

\* fmtarg (lines 316-329)
fmtarg(obj) ==
    IF obj.kind # "Func" THEN -1
    ELSE IF Kind(obj.name) \in {"KindPrintf", "KindErrorf"} THEN ParamsLen(obj.name) - 2
    ELSE -1

\* A parameter field (ast.Field): xs are its Names.
Field(names) == Node("Field", "", names)

\* A function declaration: name and obj are those of n.Name, xs is
\* n.Type.Params.List.
FuncDecl(name, fields) == [kind |-> "FuncDecl", name |-> name, obj |-> "Func", xs |-> fields]

\* The function declarations of the package, in source order:
\*   func wrapf(format string, args ...interface{})
\*   func logf(a, layout string, rest ...interface{})
\*   func plain(s string)
\*   func tracef(string, ...interface{})
Decls ==
    << FuncDecl("wrapf", <<Field(<<Ident("format", "Var")>>), Field(<<Ident("args", "Var")>>)>>),
       FuncDecl("logf", <<Field(<<Ident("a", "Var"), Ident("layout", "Var")>>),
                          Field(<<Ident("rest", "Var")>>)>>),
       FuncDecl("plain", <<Field(<<Ident("s", "Var")>>)>>),
       FuncDecl("tracef", <<Field(<<>>), Field(<<>>)>>) >>

\* The names of all fields, in order: the order nthName's two loops visit them.
RECURSIVE fieldNames(_)
fieldNames(flds) ==
    IF flds = <<>> THEN <<>> ELSE Head(flds).xs \o fieldNames(Tail(flds))

\* An nthName that counts fields, not names.
nthName_field(flds, nth) ==
    IF nth < Len(flds) /\ flds[nth + 1].xs # <<>> THEN flds[nth + 1].xs[1] ELSE NilExpr

\* nthName (lines 430-441): the nth name, or nil.
nthName(flds, nth) ==
    IF nth < Len(fieldNames(flds)) THEN fieldNames(flds)[nth + 1] ELSE NilExpr

(***************************************************************************)
(* The callback (lines 215-312), one operator per case.                    *)
(***************************************************************************)
\* case *ast.FuncDecl (lines 217-229): the map after the visit.
visitFuncDecl(n, registry) ==
    LET obj == ObjectOf(n)
        i == fmtarg(obj)
        id == nthName(n.xs, i)
    IN  IF obj # NilObj /\ i >= 0 /\ id # NilExpr /\ ObjectOf(id) # NilObj
        THEN registry \cup {ObjectOf(id)}
        ELSE registry

\* The objects an assignment's targets delete (lines 231-237).
assignTargets(n) ==
    { ObjectOf(n.xs[i]) : i \in {j \in DOMAIN n.xs : n.xs[j].kind = "Ident"} } \ {NilObj}

\* An assignment case that looks at the first target only.
visitAssignStmt_first(n, registry) ==
    IF n.xs[1].kind = "Ident" THEN registry \ {ObjectOf(n.xs[1])} ELSE registry

\* case *ast.AssignStmt (lines 230-238): the map after the visit.
visitAssignStmt(n, registry) == registry \ assignTargets(n)

\* The length below which a sole culprit's text is quoted in the message.
CulpritTextLimit == 32

\* The node at path p of expression x.
RECURSIVE At(_, _)
At(x, p) == IF p = <<>> THEN x ELSE At(x.xs[Head(p)], Tail(p))

\* All orders in which ranging over a map with key set S can yield its keys:
\* Go leaves the iteration order of a map unspecified and randomises it.
RECURSIVE mapOrders(_)
mapOrders(S) ==
    IF S = {} THEN {<<>>}
    ELSE UNION { { <<k>> \o rest : rest \in mapOrders(S \ {k}) } : k \in S }

Position(decl, path) == [decl |-> decl, path |-> path]

\* What one visit does besides changing the map: the diagnostics reported,
\* the bad map, whether it panicked, and constlit's result if it was called.
Outcome(diags, badmap, panicked, result) ==
    [emitted |-> diags, bad |-> badmap, aborted |-> panicked, verdict |-> result]

Quiet == Outcome(<<>>, {}, FALSE, "none")

Panic == Outcome(<<>>, {}, TRUE, "none")

\* The diagnostic for a bare identifier bound to a variable (lines 268-276).
identDiagnostic(n, arg, obj) ==
    [Pos |-> Position("", <<>>),
     Message |-> "variable '" \o pp(arg) \o "' used for " \o pp(Fun(n)) \o " format parameter",
     Related |-> << [Pos |-> Position(obj.name, <<>>), Message |-> "defined here"] >>]

\* A msg whose length test is <= instead of <.
message_le(arg, badmap) ==
    IF Cardinality(badmap) = 1
       /\ \A x \in badmap : Len(pp(At(arg, x))) <= CulpritTextLimit
    THEN "variable '" \o pp(At(arg, CHOOSE x \in badmap : TRUE)) \o "'"
    ELSE "non-constant expression"

\* msg (lines 295-302)
message(arg, badmap) ==
    IF Cardinality(badmap) = 1
       /\ \A x \in badmap : Len(pp(At(arg, x))) < CulpritTextLimit
    THEN "variable '" \o pp(At(arg, CHOOSE x \in badmap : TRUE)) \o "'"
    ELSE "non-constant expression"

\* The diagnostic for any other non-constant format argument (lines 287-308),
\* with the culprit map ranged over in the given order.
exprDiagnostic(n, arg, badmap, order) ==
    [Pos |-> Position("", <<>>),
     Message |-> message(arg, badmap) \o " used for " \o pp(Fun(n)) \o " format parameter",
     Related |-> [i \in DOMAIN order |->
                    [Pos |-> Position("", order[i]),
                     Message |-> "Non-constant: " \o pp(At(arg, order[i]))]]]

\* checkarg (lines 240-253); "unhandled" stands for the default case, which
\* logs the callee (never nil) and returns.
handledCallfun ==
    {"CallExpr", "TypeAssertExpr", "ParenExpr", "IndexExpr", "FuncLit", "ArrayType",
     "InterfaceType", "MapType", "ChanType", "StructType"}

checkargOf(n) ==
    CASE Fun(n).kind = "Ident" -> fmtarg(ObjectOf(Fun(n)))
      [] Fun(n).kind = "SelectorExpr" -> fmtarg(selobj(Fun(n)))
      [] OTHER -> -1

\* if v.SuppressNoArgs && len(n.Args)-1 > checkarg { return } (lines 258-260)
suppressed(n, checkarg, suppressNoArgs) ==
    suppressNoArgs /\ Len(Args(n)) - 1 > checkarg

\* switch arg := n.Args[checkarg].(type) (lines 262-310)
checkFormat(n, arg, registry) ==
    IF arg.kind = "Ident"
    THEN LET obj == ObjectOf(arg)
         IN  CASE obj.kind = "Var" ->
                    IF obj \notin registry
                    THEN {Outcome(<<identDiagnostic(n, arg, obj)>>, {}, FALSE, "none")}
                    ELSE {Quiet}
               [] obj.kind = "Const" -> {Quiet}
               [] OTHER -> IF pt(obj) THEN {Panic} ELSE {Quiet}
    ELSE LET r == constlit(arg, <<>>, {})
         IN  IF ~r.ok
             THEN { Outcome(<<exprDiagnostic(n, arg, r.bad, order)>>, r.bad, FALSE,
                            "nonconstant") : order \in mapOrders(r.bad) }
             ELSE {Outcome(<<>>, r.bad, FALSE, "constant")}

\* case *ast.CallExpr (lines 239-310): the possible outcomes of the visit.
\* Indexing n.Args beyond its length panics.
visitCallExpr(n, registry, suppressNoArgs) ==
    LET checkarg == checkargOf(n)
    IN  IF Fun(n).kind \notin {"Ident", "SelectorExpr"} \cup handledCallfun THEN {Quiet}
        ELSE IF checkarg < 0 THEN {Quiet}
        ELSE IF suppressed(n, checkarg, suppressNoArgs) THEN {Quiet}
        ELSE IF checkarg >= Len(Args(n)) THEN {Panic}
        ELSE checkFormat(n, Args(n)[checkarg + 1], registry)

(***************************************************************************)
(* Inputs: the expressions a format argument can be.  In the package of    *)
(* specification SpecE the parser builds one expression top-down, filling  *)
(* the leftmost hole of the tree with a leaf or with a composite node      *)
(* whose operands are holes again.                                         *)
(***************************************************************************)
\* const c1 = "c1"; var v1 string; package pkg with const C and a variable
\* whose qualified name is 31 bytes long; a composite literal stands for the
\* node kinds constlit has no case for.
Leaves ==
    { Leaf("BasicLit", "\"abc\"", ""),
      Ident("c1", "Const"),
      Ident("v1", "Var"),
      Selector("pkg.C", "Const"),
      Selector("pkg.RequestScopedFormatTemplate", "Var"),
      Leaf("CompositeLit", "T{}", "") }

\* Callees of calls inside an expression: the type names string and
\* pkg.String, the function f, and the parenthesised type (string).
Callees ==
    { Ident("string", "TypeName"),
      Selector("pkg.String", "TypeName"),
      Ident("f", "Func"),
      Node("ParenExpr", "", <<Ident("string", "TypeName")>>) }

Hole == Leaf("hole", "", "")

Slice(x, low, high, max) == Node("SliceExpr", "", <<x, low, high, max>>)

\* What a hole can be filled with: a leaf, f(), or a composite over holes.
Shapes ==
    Leaves
    \cup { Call(Ident("f", "Func"), <<>>) }
    \cup { Node("ParenExpr", "", <<Hole>>), Node("StarExpr", "", <<Hole>>),
           Node("TypeAssertExpr", "", <<Hole>>), Node("UnaryExpr", "<-", <<Hole>>),
           Slice(Hole, NilExpr, NilExpr, NilExpr) }
    \cup { Call(c, <<Hole>>) : c \in Callees }
    \cup { Node("BinaryExpr", "+", <<Hole, Hole>>), Node("KeyValueExpr", "", <<Hole, Hole>>),
           Node("IndexExpr", "", <<Hole, Hole>>),
           Slice(Hole, Hole, NilExpr, NilExpr), Slice(Hole, NilExpr, Hole, NilExpr),
           Call(Ident("string", "TypeName"), <<Hole, Hole>>) }
    \cup { Slice(Hole, Hole, Hole, NilExpr), Slice(Hole, NilExpr, Hole, Hole),
           Slice(Hole, Hole, Hole, Hole) }

\* The operand positions of a node: all children, but not a call's Fun nor
\* an absent slice bound.
operandIdxs(x) ==
    { i \in DOMAIN x.xs : x.xs[i].kind # "nil" /\ ~(x.kind = "CallExpr" /\ i = 1) }

\* Number of nodes of an expression (holes count, callees do not).
RECURSIVE Size(_)
RECURSIVE SizeSum(_, _)
SizeSum(x, I) ==
    IF I = {} THEN 0
    ELSE LET i == CHOOSE j \in I : TRUE IN Size(x.xs[i]) + SizeSum(x, I \ {i})

Size(x) == 1 + SizeSum(x, operandIdxs(x))

RECURSIVE HasHole(_)
HasHole(x) == x.kind = "hole" \/ \E i \in operandIdxs(x) : HasHole(x.xs[i])

\* x with its leftmost hole replaced by shape.
RECURSIVE Fill(_, _)
Fill(x, shape) ==
    IF x.kind = "hole" THEN shape
    ELSE LET i == CHOOSE j \in operandIdxs(x) :
                    /\ HasHole(x.xs[j])
                    /\ \A k \in operandIdxs(x) : k < j => ~HasHole(x.xs[k])
         IN  [x EXCEPT !.xs[i] = Fill(x.xs[i], shape)]

(***************************************************************************)
(* Inputs: the nodes of the package of specification Spec.  Identifiers    *)
(* of parameters occur only in the body of their function.                 *)
(***************************************************************************)
\* The parameters in scope in the function at index fn of Decls (none at
\* package level, index 0).
ParamsOf(fn) ==
    IF fn = 0 THEN {}
    ELSE { fieldNames(Decls[fn].xs)[i] : i \in DOMAIN fieldNames(Decls[fn].xs) }

\* A value argument that is not the format argument.
OtherArg == Ident("v2", "Var")

\* A call of a function with several results, as the only argument: f(g()).
MultiCall == Call(Ident("two", "Func"), <<>>)

\* Format arguments: bare identifiers (a variable, a constant, the parameters
\* in scope, an identifier without object, a function name) and the
\* expressions "abc", v1 + c1 and (v1 + c1).
FormatArgs(fn) ==
    { Ident("v1", "Var"), Ident("c1", "Const"), Ident("x", "nil"), Ident("f", "Func") }
    \cup ParamsOf(fn)
    \cup { Leaf("BasicLit", "\"abc\"", ""),
           Node("BinaryExpr", "+", <<Ident("v1", "Var"), Ident("c1", "Const")>>),
           Node("ParenExpr", "",
                <<Node("BinaryExpr", "+", <<Ident("v1", "Var"), Ident("c1", "Const")>>)>>) }

\* Callees of visited calls: printf-like functions with the format at index
\* 0 and 1, a wrapper of the package, a print-like and a plain function, a
\* function-valued variable, a function literal, and an instantiation
\* g[int, string], a callee form the callback has no case for.
CallFuns ==
    { Selector("fmt.Errorf", "Func"), Selector("fmt.Fprintf", "Func"),
      Ident("wrapf", "Func"),
      Selector("fmt.Sprint", "Func"), Ident("plain", "Func"), Ident("hook", "Var"),
      Leaf("FuncLit", "func(...interface{}) {}", ""),
      Leaf("IndexListExpr", "g[int, string]", "") }

\* n copies of OtherArg.
others(n) == [i \in 1 .. n |-> OtherArg]

\* The argument lists a call of fun can have in function fn: for a
\* printf-like function either one multi-value call or the arguments up to
\* the format argument and zero or more values; else any values.
ArgLists(fun, fn) ==
    LET i == checkargOf(Call(fun, <<>>))
    IN  IF i < 0 THEN { others(n) : n \in 0 .. MaxArgs }
        ELSE { <<MultiCall>> }
             \cup { others(i) \o <<a>> \o others(n) : a \in FormatArgs(fn),
                                                      n \in 0 .. MaxArgs - i - 1 }

CallNodes(fn) == UNION { { Call(fun, args) : args \in ArgLists(fun, fn) } : fun \in CallFuns }

\* Assignment targets: the parameters in scope, a package variable, the
\* blank identifier (no object) and an element ar[0] (not an identifier).
Targets(fn) ==
    (IF fn = 0 THEN <<>> ELSE fieldNames(Decls[fn].xs))
    \o << Ident("v1", "Var"), Ident("_", "nil"),
          Node("IndexExpr", "", <<Ident("ar", "Var"), Leaf("BasicLit", "0", "")>>) >>

\* Largest number of targets of an assignment statement.
MaxLhs == 2

\* The assignment statements of a function body: one to MaxLhs distinct
\* targets, in the order of Targets.
AssignNodes(fn) ==
    IF fn = 0 THEN {}
    ELSE { Node("AssignStmt", "=", [i \in DOMAIN pick |-> Targets(fn)[pick[i]]]) :
             pick \in { q \in UNION { [1 .. n -> DOMAIN Targets(fn)] : n \in 1 .. MaxLhs } :
                          \A i \in DOMAIN q : i > 1 => q[i - 1] < q[i] } }

(***************************************************************************)
(* The pass.                                                               *)
(***************************************************************************)
Init ==
    /\ SuppressNoArgs \in BOOLEAN
    /\ passthru = {}
    /\ passthru2 = {}
    /\ cur = 0
    /\ assigned = {}
    /\ fmtexpr = Hole
    /\ node = NilExpr
    /\ culprits = {}
    /\ verdict = "none"
    /\ emitted = <<>>
    /\ emitted2 = <<>>
    /\ aborted = FALSE
    /\ aborted2 = FALSE

\* The callback on function declaration d, in both runs.
FuncDeclAt(d) ==
    /\ ~aborted
    /\ cur < Len(Decls)
    /\ d = Decls[cur + 1]
    /\ cur' = cur + 1
    /\ assigned' = {}
    /\ passthru' = visitFuncDecl(d, passthru)
    /\ passthru2' = visitFuncDecl(d, passthru2)
    /\ node' = d
    /\ culprits' = {}
    /\ verdict' = "none"
    /\ emitted' = <<>>
    /\ emitted2' = <<>>
    /\ UNCHANGED <<SuppressNoArgs, fmtexpr, aborted, aborted2>>

\* The callback on assignment statement n, in both runs.
AssignStmtAt(n) ==
    /\ ~aborted
    /\ passthru' = visitAssignStmt(n, passthru)
    /\ passthru2' = visitAssignStmt(n, passthru2)
    /\ assigned' = assigned \cup (assignTargets(n) \cap {ObjectOf(id) : id \in ParamsOf(cur)})
    /\ node' = n
    /\ culprits' = {}
    /\ verdict' = "none"
    /\ emitted' = <<>>
    /\ emitted2' = <<>>
    /\ UNCHANGED <<SuppressNoArgs, cur, fmtexpr, aborted, aborted2>>

\* The callback on call expression n.
CallExprAt(n) ==
    /\ ~aborted
    /\ \E r \in visitCallExpr(n, passthru, SuppressNoArgs) :
            /\ culprits' = r.bad
            /\ verdict' = r.verdict
            /\ emitted' = r.emitted
            /\ aborted' = r.aborted
    /\ node' = n
    /\ UNCHANGED <<SuppressNoArgs, passthru, passthru2, cur, assigned, fmtexpr>>

\* The second run's callback on the same call expression.
CallExprAt2(n) ==
    \E r2 \in visitCallExpr(n, passthru2, SuppressNoArgs) :
        /\ emitted2' = r2.emitted
        /\ aborted2' = r2.aborted

VisitFuncDecl == \E d \in {Decls[i] : i \in DOMAIN Decls} : FuncDeclAt(d)

VisitAssignStmt == \E n \in AssignNodes(cur) : AssignStmtAt(n)

VisitCallExpr == \E n \in CallNodes(cur) : CallExprAt(n) /\ CallExprAt2(n)

Next == VisitFuncDecl \/ VisitAssignStmt \/ VisitCallExpr

Spec == Init /\ [][Next]_vars

\* The parser adds one node to the format argument of the package's one call.
BuildArg ==
    /\ node = NilExpr
    /\ HasHole(fmtexpr)
    /\ \E shape \in Shapes :
         /\ Size(fmtexpr) - 1 + Size(shape) <= MaxSize
         /\ fmtexpr' = Fill(fmtexpr, shape)
    /\ UNCHANGED <<SuppressNoArgs, passthru, passthru2, cur, assigned, node,
                   culprits, verdict, emitted, emitted2, aborted, aborted2>>

\* The pass over the package whose one statement is fmt.Sprintf(fmtexpr).
VisitBuiltCall ==
    /\ node = NilExpr
    /\ ~HasHole(fmtexpr)
    /\ CallExprAt(Call(Selector("fmt.Sprintf", "Func"), <<fmtexpr>>))
    /\ UNCHANGED <<emitted2, aborted2>>

NextE == BuildArg \/ VisitBuiltCall

SpecE == Init /\ [][NextE]_vars

(***************************************************************************)
(* Vocabulary of the properties.                                           *)
(***************************************************************************)
StartsWith(m, prefix) == Len(m) >= Len(prefix) /\ SubSeq(m, 1, Len(prefix)) = prefix

EndsWith(m, suffix) ==
    Len(m) >= Len(suffix) /\ SubSeq(m, Len(m) - Len(suffix) + 1, Len(m)) = suffix

\* The callback has just returned from a call expression.
CallVisited == node.kind = "CallExpr" /\ ~aborted

\* The function designated by the classifier has its format argument among
\* the call's syntactic arguments.
HasFormatArg == checkargOf(node) >= 0 /\ Len(Args(node)) > checkargOf(node)

FormatArg == Args(node)[checkargOf(node) + 1]

\* The call has at least one argument after the format argument.
HasValues == Len(Args(node)) > checkargOf(node) + 1

\* The declared format parameter of the function at index fn of Decls, by
\* the printf convention (the parameter before the variadic one), where the
\* function is format-consuming and names its parameters.
DeclaredFormatParam(fn) ==
    CASE fn > 0 /\ Decls[fn].name = "wrapf" -> Ident("format", "Var")
      [] fn > 0 /\ Decls[fn].name = "logf" -> Ident("layout", "Var")
      [] OTHER -> NilExpr

\* A callee that is an identifier or member access bound to a type name.
NamedType(f) == f.kind \in {"Ident", "SelectorExpr"} /\ f.obj = "TypeName"

\* A callee that denotes a type in any syntactic form.
AnyType(f) == NamedType(f) \/ (f.kind = "ParenExpr" /\ NamedType(f.xs[1]))

\* Constant provenance as section 4.2 of the specification defines it.
RECURSIVE ConstantBySpec(_)
ConstantBySpec(x) ==
    CASE x.kind = "BasicLit" -> TRUE
      [] x.kind \in {"Ident", "SelectorExpr"} -> x.obj = "Const"
      [] x.kind \in {"BinaryExpr", "KeyValueExpr", "ParenExpr", "StarExpr", "TypeAssertExpr",
                     "UnaryExpr", "SliceExpr"} ->
            \A i \in operandIdxs(x) : ConstantBySpec(x.xs[i])
      [] x.kind = "CallExpr" ->
            Len(Args(x)) = 1 /\ NamedType(Fun(x)) /\ ConstantBySpec(Args(x)[1])
      [] OTHER -> FALSE

\* x is built only from text literals, identifiers and member accesses
\* bound to declared constants and one-argument conversions, through
\* binary, paren, unary and slice nodes.  With named, the callee of a
\* conversion is an identifier or member access bound to a type name;
\* without, it denotes a type in any syntactic form.
RECURSIVE BuiltFromConstants(_, _)
BuiltFromConstants(x, named) ==
    CASE x.kind = "BasicLit" -> TRUE
      [] x.kind \in {"Ident", "SelectorExpr"} -> x.obj = "Const"
      [] x.kind \in {"BinaryExpr", "ParenExpr", "UnaryExpr", "SliceExpr"} ->
            \A i \in operandIdxs(x) : BuiltFromConstants(x.xs[i], named)
      [] x.kind = "CallExpr" ->
            /\ Len(Args(x)) = 1
            /\ IF named THEN NamedType(Fun(x)) ELSE AnyType(Fun(x))
            /\ BuiltFromConstants(Args(x)[1], named)
      [] OTHER -> FALSE

\* The paths of the index expressions of x that lie on operand positions.
RECURSIVE IndexPaths(_, _)
IndexPaths(x, p) ==
    (IF x.kind = "IndexExpr" THEN {p} ELSE {})
    \cup UNION { IndexPaths(x.xs[i], p \o <<i>>) : i \in operandIdxs(x) }

\* Path q lies strictly inside the subtree at path p.
Inside(q, p) == Len(q) > Len(p) /\ SubSeq(q, 1, Len(p)) = p

(***************************************************************************)
(* C1.  Pass-through exemption in preorder: in a format-consuming function *)
(* with named format parameter p, a call of a format-consuming function    *)
(* with the bare identifier p as format argument reports nothing if and    *)
(* only if no assignment with target p was visited before it, and reports  *)
(* exactly one diagnostic after such an assignment.                        *)
(***************************************************************************)
C1_Case ==
    /\ CallVisited
    /\ DeclaredFormatParam(cur) # NilExpr
    /\ HasFormatArg
    /\ FormatArg = DeclaredFormatParam(cur)

C1_Exemption ==
    /\ emitted = <<>> <=> ObjectOf(DeclaredFormatParam(cur)) \notin assigned
    /\ ObjectOf(DeclaredFormatParam(cur)) \in assigned => Len(emitted) = 1

C2_SuppressNoArgs ==
    CallVisited /\ SuppressNoArgs /\ HasFormatArg =>
        /\ ~HasValues => emitted = <<>>
        /\ HasValues => \E r \in visitCallExpr(node, passthru, FALSE) : emitted = r.emitted

(***************************************************************************)
(* C3.  A format argument built only from text literals, constants and     *)
(* one-argument type conversions, through binary, paren, unary and slice   *)
(* nodes, is judged constant, leaves the culprit set empty and yields no   *)
(* diagnostic.                                                             *)
(***************************************************************************)
C3_Verdict ==
    /\ fmtexpr.kind # "Ident" => verdict = "constant"
    /\ culprits = {}
    /\ emitted = <<>>

\* C3 as claimed: conversions to a type in any syntactic form.
C3_ConstantsAreConstant ==
    CallVisited /\ BuiltFromConstants(fmtexpr, FALSE) => C3_Verdict

\* C3 as amended: conversions whose callee is an identifier or member
\* access bound to a type name.
C3_NamedConstantsAreConstant ==
    CallVisited /\ BuiltFromConstants(fmtexpr, TRUE) => C3_Verdict

\* A conversion of a composite of constants was judged.
C3_Witness ==
    /\ CallVisited
    /\ fmtexpr.kind = "CallExpr"
    /\ Size(fmtexpr) >= 3
    /\ BuiltFromConstants(fmtexpr, TRUE)
    /\ verdict = "constant"

(***************************************************************************)
(* C4.  For a non-constant format argument that is not a bare identifier   *)
(* the message starts with variable '<culprit text>' if and only if there  *)
(* is exactly one culprit and its text is shorter than 32; otherwise it    *)
(* starts with non-constant expression; it always ends with                *)
(* " used for <function name> format parameter".                           *)
(***************************************************************************)
C4_SoleShortCulprit ==
    Cardinality(culprits) = 1 /\ \A c \in culprits : Len(pp(At(fmtexpr, c))) < 32

C4_MessageForm ==
    CallVisited /\ fmtexpr.kind # "Ident" /\ verdict = "nonconstant" =>
        /\ Len(emitted) = 1
        /\ C4_SoleShortCulprit <=>
             \E c \in culprits :
                StartsWith(emitted[1].Message, "variable '" \o pp(At(fmtexpr, c)) \o "'")
        /\ ~C4_SoleShortCulprit => StartsWith(emitted[1].Message, "non-constant expression")
        /\ EndsWith(emitted[1].Message, " used for " \o pp(Fun(node)) \o " format parameter")

\* A single culprit of exactly 32 bytes was reported.
C4_Witness ==
    /\ CallVisited
    /\ verdict = "nonconstant"
    /\ Cardinality(culprits) = 1
    /\ \A c \in culprits : Len(pp(At(fmtexpr, c))) = 32
    /\ Len(emitted) = 1

(***************************************************************************)
(* C5.  An index expression is non-constant whatever its operands are,     *)
(* nothing inside it is recorded as a culprit, and an index expression     *)
(* that is the whole format argument is the one culprit.                   *)
(***************************************************************************)
C5_IndexNonConstant ==
    CallVisited /\ IndexPaths(fmtexpr, <<>>) # {} =>
        /\ verdict = "nonconstant"
        /\ \A q \in IndexPaths(fmtexpr, <<>>) : \A c \in culprits : ~Inside(c, q)
        /\ fmtexpr.kind = "IndexExpr" => culprits = {<<>>}

\* An index expression with constant container and key was judged.
C5_Witness ==
    /\ CallVisited
    /\ fmtexpr.kind = "IndexExpr"
    /\ \A i \in operandIdxs(fmtexpr) : ConstantBySpec(fmtexpr.xs[i])
    /\ culprits = {<<>>}
    /\ Len(emitted) = 1

(***************************************************************************)
(* C6.  Two runs of the pass over the same tree report the same            *)
(* diagnostics, related annotations in the same order included.            *)
(***************************************************************************)
C6_SameDiagnostics == emitted2 = emitted /\ aborted2 = aborted /\ passthru2 = passthru

(***************************************************************************)
(* C7.  The visit of a call expression never aborts the pass and reports   *)
(* at most one diagnostic.                                                 *)
(***************************************************************************)
C7_NeverAborts == ~aborted /\ Len(emitted) <= 1

(***************************************************************************)
(* C8.  When all immediate operands of a composite node are non-constant,  *)
(* the culprit set holds the parent and, as claimed, no node inside any    *)
(* operand at any depth.                                                   *)
(***************************************************************************)
C8_Case ==
    /\ CallVisited
    /\ fmtexpr.kind \in {"BinaryExpr", "ParenExpr", "UnaryExpr", "StarExpr", "TypeAssertExpr",
                         "SliceExpr", "KeyValueExpr"}
    /\ \A i \in operandIdxs(fmtexpr) : ~ConstantBySpec(fmtexpr.xs[i])

\* C8 as claimed: the parent is the sole culprit.
C8_ParentSoleCulprit == C8_Case => culprits = {<<>>}

\* C8 as amended: the parent is a culprit and no immediate operand is;
\* culprits recorded deeper inside an operand stay.
C8_ParentReplacesOperands ==
    C8_Case => /\ <<>> \in culprits
               /\ \A i \in operandIdxs(fmtexpr) : <<i>> \notin culprits

\* A non-constant operand that itself mixes a variable with a constant:
\* the variable stays beside the parent.
C8_Witness ==
    /\ C8_Case
    /\ fmtexpr.kind = "ParenExpr"
    /\ fmtexpr.xs[1].kind = "BinaryExpr"
    /\ culprits = {<<>>, <<1, 1>>}

(***************************************************************************)
(* C9.  A call expression is constant if and only if it has one argument,  *)
(* its callee is an identifier or member access bound to a type name, and  *)
(* the argument is constant; otherwise the call is a culprit and, as       *)
(* claimed, the only one.                                                  *)
(***************************************************************************)
C9_Case == CallVisited /\ fmtexpr.kind = "CallExpr"

C9_Conversion == Len(Args(fmtexpr)) = 1 /\ NamedType(Fun(fmtexpr))

C9_VerdictRule ==
    verdict = "constant" <=> C9_Conversion /\ ConstantBySpec(Args(fmtexpr)[1])

\* C9 as claimed.
C9_CallSoleCulprit ==
    C9_Case => /\ C9_VerdictRule
               /\ verdict # "constant" => verdict = "nonconstant" /\ culprits = {<<>>}

\* C9 as amended: the culprits of the argument of a one-argument conversion
\* to a named type stay beside the call.
C9_CallCulprit ==
    C9_Case => /\ C9_VerdictRule
               /\ verdict # "constant" =>
                    /\ verdict = "nonconstant"
                    /\ <<>> \in culprits
                    /\ ~C9_Conversion => culprits = {<<>>}
                    /\ C9_Conversion =>
                         /\ culprits # {<<>>}
                         /\ \A c \in culprits \ {<<>>} : Inside(c, <<2>>) \/ c = <<2>>

\* A conversion of a variable was judged.
C9_Witness ==
    /\ C9_Case
    /\ C9_Conversion
    /\ verdict = "nonconstant"
    /\ culprits = {<<>>, <<2>>}

C11_VerdictIffCulprits ==
    CallVisited =>
        LET r == constlit(fmtexpr, <<>>, {})
        IN  /\ ~r.ok <=> r.bad # {}
            /\ fmtexpr.kind # "Ident" =>
                 /\ verdict \in {"constant", "nonconstant"}
                 /\ verdict = "nonconstant" <=> culprits # {}
                 /\ verdict = "nonconstant" <=> ~r.ok
                 /\ culprits = r.bad
            /\ (\E i \in operandIdxs(fmtexpr) : ~constlit(fmtexpr.xs[i], <<i>>, {}).ok) => ~r.ok

\* A binary expression of a constant and a parenthesised variable: the
\* inner combine deleted the variable and the culprit set is not empty.
C11_Witness ==
    /\ CallVisited
    /\ fmtexpr.kind = "BinaryExpr"
    /\ fmtexpr.xs[1].kind = "ParenExpr"
    /\ fmtexpr.xs[1].xs[1].kind = "Ident"
    /\ constlit(fmtexpr.xs[2], <<2>>, {}).ok
    /\ verdict = "nonconstant"
    /\ culprits = {<<1>>}

====
